---- MODULE Spec2Model ----
(***************************************************************************)
(* A model of address_book.py: validated fields, contact records, the      *)
(* address book, the command layer with its error translation, the REPL of *)
(* main and the persistence file.                                          *)
(*                                                                         *)
(* Python str values are sequences of one-character strings, so that len,  *)
(* strip, casefold, split, strptime and strftime are computed character by *)
(* character.  A datetime.date is a record [year, month, day].             *)
(***************************************************************************)
EXTENDS Integers, Sequences, FiniteSets, TLC

VARIABLES
    book,   \* the AddressBook object
    contact, \* the Record object whose methods SpecRecord calls
    pre,    \* the book (SpecRecord: the record) before the last operation
    last,   \* the last operation: [op, args, today]
    out,    \* what main printed last: [text, args]
    ret,    \* outcome of the last direct method call: [exc, msg, val]
    file,   \* addressbook.pkl: [exists, bytes]
    pc,     \* main: "idle", "input", "print", "closed", "crashed"
    nlines  \* lines read so far

vars == <<book, contact, pre, last, out, ret, file, pc, nlines>>

----------------------------------------------------------------------------
(* Bounds of the model *)

\* lines read from standard input over all sessions
MaxLines == 4
\* phones the record of SpecRecord may hold
MaxPhones == 3

----------------------------------------------------------------------------
(* Python str helpers *)

Digits == <<"0", "1", "2", "3", "4", "5", "6", "7", "8", "9">>

IsDigit(c) == \E i \in 1..10 : Digits[i] = c

DigitVal(c) == (CHOOSE i \in 1..10 : Digits[i] = c) - 1

DigitChr(n) == Digits[n + 1]

UpperChars == <<"A", "B", "C", "D", "E", "F", "G", "H", "I", "J", "K", "L", "M",
                "N", "O", "P", "Q", "R", "S", "T", "U", "V", "W", "X", "Y", "Z">>

LowerChars == <<"a", "b", "c", "d", "e", "f", "g", "h", "i", "j", "k", "l", "m",
                "n", "o", "p", "q", "r", "s", "t", "u", "v", "w", "x", "y", "z">>

IsSpace(c) == c \in {" ", "\t"}

\* str.casefold on one character of the ASCII alphabet
casefoldChr(c) ==
    IF \E i \in 1..26 : UpperChars[i] = c
    THEN LowerChars[CHOOSE i \in 1..26 : UpperChars[i] = c]
    ELSE c

casefold(s) == [i \in 1..Len(s) |-> casefoldChr(s[i])]

\* str.strip: drop leading and trailing whitespace
RECURSIVE lstrip(_)
lstrip(s) == IF s # <<>> /\ IsSpace(Head(s)) THEN lstrip(Tail(s)) ELSE s

RECURSIVE rstrip(_)
rstrip(s) ==
    IF s # <<>> /\ IsSpace(s[Len(s)]) THEN rstrip(SubSeq(s, 1, Len(s) - 1)) ELSE s

strip(s) == rstrip(lstrip(s))

\* str.split(): the maximal runs of non-whitespace characters, in order
RECURSIVE splitFrom(_, _, _)
splitFrom(s, i, word) ==
    IF i > Len(s)
    THEN IF word = <<>> THEN <<>> ELSE <<word>>
    ELSE IF IsSpace(s[i])
         THEN IF word = <<>>
              THEN splitFrom(s, i + 1, <<>>)
              ELSE <<word>> \o splitFrom(s, i + 1, <<>>)
         ELSE splitFrom(s, i + 1, Append(word, s[i]))

split(s) == splitFrom(s, 1, <<>>)

\* sep.join(parts)
RECURSIVE join(_, _)
join(sep, parts) ==
    IF parts = <<>> THEN <<>>
    ELSE IF Len(parts) = 1 THEN parts[1]
    ELSE parts[1] \o sep \o join(sep, Tail(parts))

\* the fields of s separated by the character c
RECURSIVE fieldsFrom(_, _, _, _)
fieldsFrom(s, c, i, word) ==
    IF i > Len(s) THEN <<word>>
    ELSE IF s[i] = c
         THEN <<word>> \o fieldsFrom(s, c, i + 1, <<>>)
         ELSE fieldsFrom(s, c, i + 1, Append(word, s[i]))

RECURSIVE atoi(_)
atoi(s) == IF s = <<>> THEN 0 ELSE 10 * atoi(SubSeq(s, 1, Len(s) - 1)) + DigitVal(s[Len(s)])

----------------------------------------------------------------------------
(* Outcomes of calls: a returned value or a raised exception *)

Ok(v) == [exc |-> "", msg |-> "", val |-> v]

Raise(e, m) == [exc |-> e, msg |-> m, val |-> <<>>]

----------------------------------------------------------------------------
(* datetime.date *)

None == [year |-> 0, month |-> 0, day |-> 0]

date(y, m, d) == [year |-> y, month |-> m, day |-> d]

IsLeap(y) == y % 4 = 0 /\ (y % 100 # 0 \/ y % 400 = 0)

DaysInMonth(y, m) ==
    IF m = 2 THEN (IF IsLeap(y) THEN 29 ELSE 28)
    ELSE IF m \in {4, 6, 9, 11} THEN 30 ELSE 31

RECURSIVE DaysBeforeMonth(_, _)
DaysBeforeMonth(y, m) ==
    IF m = 1 THEN 0 ELSE DaysBeforeMonth(y, m - 1) + DaysInMonth(y, m - 1)

DaysBeforeYear(y) ==
    (y - 1) * 365 + ((y - 1) \div 4) - ((y - 1) \div 100) + ((y - 1) \div 400)

\* date.toordinal: 1 is 0001-01-01
toordinal(d) == DaysBeforeYear(d.year) + DaysBeforeMonth(d.year, d.month) + d.day

\* date.weekday: Monday is 0, Sunday is 6
weekday(d) == (toordinal(d) + 6) % 7

\* date < date
DateLt(a, b) ==
    \/ a.year < b.year
    \/ a.year = b.year /\ a.month < b.month
    \/ a.year = b.year /\ a.month = b.month /\ a.day < b.day

DateLe(a, b) == a = b \/ DateLt(a, b)

\* date + timedelta(days=n) for n >= 0
RECURSIVE AddDays(_, _)
AddDays(d, n) ==
    IF n = 0 THEN d
    ELSE IF d.day < DaysInMonth(d.year, d.month)
         THEN AddDays(date(d.year, d.month, d.day + 1), n - 1)
         ELSE IF d.month < 12
              THEN AddDays(date(d.year, d.month + 1, 1), n - 1)
              ELSE AddDays(date(d.year + 1, 1, 1), n - 1)

\* date.replace(year=y): ValueError when the day does not exist in that year
replace_year(d, y) ==
    IF d.day > DaysInMonth(y, d.month)
    THEN Raise("ValueError", "day is out of range for month")
    ELSE Ok(date(y, d.month, d.day))

\* the strptime directives %d and %m: one or two digits, %d also " " and a digit
MatchDay(s) ==
    \/ Len(s) = 2 /\ s[1] = "3" /\ s[2] \in {"0", "1"}
    \/ Len(s) = 2 /\ s[1] \in {"1", "2"} /\ IsDigit(s[2])
    \/ Len(s) = 2 /\ s[1] = "0" /\ IsDigit(s[2]) /\ s[2] # "0"
    \/ Len(s) = 1 /\ IsDigit(s[1]) /\ s[1] # "0"
    \/ Len(s) = 2 /\ s[1] = " " /\ IsDigit(s[2]) /\ s[2] # "0"

MatchMonth(s) ==
    \/ Len(s) = 2 /\ s[1] = "1" /\ s[2] \in {"0", "1", "2"}
    \/ Len(s) = 2 /\ s[1] = "0" /\ IsDigit(s[2]) /\ s[2] # "0"
    \/ Len(s) = 1 /\ IsDigit(s[1]) /\ s[1] # "0"

\* the directive %Y: exactly four digits
MatchYear(s) == Len(s) = 4 /\ \A i \in 1..4 : IsDigit(s[i])

\* datetime.strptime(value, "%d.%m.%Y").date()
strptime(s) ==
    LET f == fieldsFrom(s, ".", 1, <<>>) IN
    IF ~(Len(f) = 3 /\ MatchDay(f[1]) /\ MatchMonth(f[2]) /\ MatchYear(f[3]))
    THEN Raise("ValueError", "time data does not match format")
    ELSE LET d == atoi(lstrip(f[1]))
             m == atoi(f[2])
             y == atoi(f[3])
         IN  IF y < 1 THEN Raise("ValueError", "year is out of range")
             ELSE IF d > DaysInMonth(y, m)
                  THEN Raise("ValueError", "day is out of range for month")
                  ELSE Ok(date(y, m, d))

\* date.strftime("%d.%m.%Y") for four-digit years
strftime(d) ==
    <<DigitChr(d.day \div 10), DigitChr(d.day % 10), ".",
      DigitChr(d.month \div 10), DigitChr(d.month % 10), ".",
      DigitChr(d.year \div 1000), DigitChr((d.year \div 100) % 10),
      DigitChr((d.year \div 10) % 10), DigitChr(d.year % 10)>>

----------------------------------------------------------------------------
(* Validated fields *)

\* Name.__init__: the value, or ValueError for an empty one
Name(value) ==
    IF value = <<>>
    THEN Raise("ValueError", "Name must be a non-empty string")
    ELSE Ok(value)

\* Phone.__init__ refusing only the values longer than 10
Phone_at_most_10(value) ==
    IF Len(value) > 10
    THEN Raise("ValueError", "Phone number should be 10 digits")
    ELSE Ok(value)

\* Phone.__init__: str(value) of a str is the value; its length must be 10
Phone(value) ==
    IF Len(value) # 10
    THEN Raise("ValueError", "Phone number should be 10 digits")
    ELSE Ok(value)

\* Birthday.__init__: every ValueError of strptime becomes the format error
Birthday(value) ==
    LET r == strptime(value) IN
    IF r.exc = "ValueError"
    THEN Raise("ValueError", "Invalid date format. Use DD.MM.YYYY")
    ELSE r

----------------------------------------------------------------------------
(* Record: a method's outcome is [self, exc, msg, val], self the record     *)
(* after the call                                                          *)

Done(self, v) == [self |-> self, exc |-> "", msg |-> "", val |-> v]

Fail(self, r) == [self |-> self, exc |-> r.exc, msg |-> r.msg, val |-> <<>>]

\* Record.__init__
Record(name) ==
    LET n == Name(name) IN
    IF n.exc # "" THEN n
    ELSE Ok([name |-> n.val, phones |-> <<>>, birthday |-> None])

\* index of the first phone equal to number, 0 when there is none
FirstIndex(phones, number) ==
    IF \E i \in 1..Len(phones) : phones[i] = number
    THEN CHOOSE i \in 1..Len(phones) :
            /\ phones[i] = number
            /\ \A j \in 1..(i - 1) : phones[j] # number
    ELSE 0

\* [p for p in phones if p.value != number]
RECURSIVE Without(_, _)
Without(phones, number) ==
    IF phones = <<>> THEN <<>>
    ELSE IF Head(phones) = number
         THEN Without(Tail(phones), number)
         ELSE <<Head(phones)>> \o Without(Tail(phones), number)

\* Record.find_phone: the first phone equal to number, or None (<<>>)
find_phone(self, number) ==
    LET i == FirstIndex(self.phones, number) IN
    IF i = 0 THEN Done(self, <<>>) ELSE Done(self, self.phones[i])

\* Record.add_phone
add_phone(self, number) ==
    LET p == Phone(number) IN
    IF p.exc # "" THEN Fail(self, p)
    ELSE Done([self EXCEPT !.phones = Append(@, p.val)], <<>>)

\* delete_phone removing only the first phone equal to number
delete_phone_first_only(self, number) ==
    LET i == FirstIndex(self.phones, number) IN
    IF i = 0
    THEN Fail(self, Raise("ValueError", "Phone number was not found"))
    ELSE Done([self EXCEPT !.phones =
                  SubSeq(self.phones, 1, i - 1) \o SubSeq(self.phones, i + 1, Len(self.phones))],
              <<>>)

\* Record.delete_phone
delete_phone(self, number) ==
    IF find_phone(self, number).val = <<>>
    THEN Fail(self, Raise("ValueError", "Phone number was not found"))
    ELSE Done([self EXCEPT !.phones = Without(@, number)], <<>>)

\* update_phone constructing Phone(new_number) before it looks for the old one
update_phone_validates_first(self, old_number, new_number) ==
    LET p == Phone(new_number)
        i == FirstIndex(self.phones, old_number)
    IN  IF p.exc # "" THEN Fail(self, p)
        ELSE IF i = 0
             THEN Fail(self, Raise("ValueError", "Old number was not found"))
             ELSE Done([self EXCEPT !.phones[i] = p.val], <<>>)

\* update_phone replacing every phone equal to old_number
update_phone_every_match(self, old_number, new_number) ==
    IF FirstIndex(self.phones, old_number) = 0
    THEN Fail(self, Raise("ValueError", "Old number was not found"))
    ELSE LET p == Phone(new_number) IN
         IF p.exc # "" THEN Fail(self, p)
         ELSE Done([self EXCEPT !.phones =
                        [j \in 1..Len(@) |-> IF @[j] = old_number THEN p.val ELSE @[j]]],
                   <<>>)

\* Record.update_phone
update_phone(self, old_number, new_number) ==
    LET i == FirstIndex(self.phones, old_number) IN
    IF i = 0
    THEN Fail(self, Raise("ValueError", "Old number was not found"))
    ELSE LET p == Phone(new_number) IN
         IF p.exc # "" THEN Fail(self, p)
         ELSE Done([self EXCEPT !.phones[i] = p.val], <<>>)

\* Record.add_birthday
Record_add_birthday(self, day) ==
    IF self.birthday # None
    THEN Fail(self, Raise("Exception", "Birthday has already been added"))
    ELSE LET b == Birthday(day) IN
         IF b.exc # "" THEN Fail(self, b)
         ELSE Done([self EXCEPT !.birthday = b.val], <<>>)

\* Record.__str__
Record_str(self) == self.name \o <<",", " ", "p", "h", "o", "n", "e", "s", ":", " ">>
                        \o join(<<";", " ">>, self.phones)

----------------------------------------------------------------------------
(* AddressBook: data maps a key to its record, order lists the keys in the  *)
(* dict's insertion order                                                  *)

AddressBook == [data |-> <<>>, order |-> <<>>]

Has(b, name) == \E i \in 1..Len(b.order) : b.order[i] = name

\* the dict as a function on its keys; <<>> is the function on no key
Keys(b) == {b.order[i] : i \in 1..Len(b.order)}

SetItem(b, key, rec) ==
    IF Has(b, key)
    THEN [b EXCEPT !.data = [k \in Keys(b) |-> IF k = key THEN rec ELSE b.data[k]]]
    ELSE [data |-> [k \in Keys(b) \cup {key} |-> IF k = key THEN rec ELSE b.data[k]],
          order |-> Append(b.order, key)]

\* add_record rebinding data to a dict of the one record
add_record_alone(b, rec) == SetItem(AddressBook, rec.name, rec)

\* add_record storing the record under str(rec) in place of its name
add_record_under_str(b, rec) == SetItem(b, Record_str(rec), rec)

\* add_record keeping the record already held under the name (setdefault)
add_record_keeps_held(b, rec) ==
    IF Has(b, rec.name) THEN b ELSE SetItem(b, rec.name, rec)

\* AddressBook.add_record
add_record(b, rec) == SetItem(b, rec.name, rec)

\* AddressBook.find_record: the record, or None (found = FALSE)
find_record(b, name) ==
    IF Has(b, name)
    THEN [found |-> TRUE, rec |-> b.data[name]]
    ELSE [found |-> FALSE, rec |-> [name |-> <<>>, phones |-> <<>>, birthday |-> None]]

\* AddressBook.delete_record
delete_record(b, name) ==
    IF Has(b, name)
    THEN [data |-> [k \in Keys(b) \ {name} |-> b.data[k]],
          order |-> SelectSeq(b.order, LAMBDA k : k # name)]
    ELSE b

\* the birthday's next occurrence as get_upcoming_birthdays computes it:
\* this year's, or next year's when this year's is already past
birthday_this_year(birth_date, today) ==
    LET r == replace_year(birth_date, today.year) IN
    IF r.exc # "" THEN r
    ELSE IF DateLt(r.val, today)
         THEN replace_year(r.val, today.year + 1)
         ELSE r

\* weekend birthdays moved by two days, whichever day of the weekend it is
congratulation_date_two_days(d) ==
    IF weekday(d) >= 5 THEN AddDays(d, 2) ELSE d

\* weekend birthdays move to Monday
congratulation_date(d) ==
    IF weekday(d) >= 5 THEN AddDays(d, 7 - weekday(d)) ELSE d

\* the loop of get_upcoming_birthdays over the records from position i on
RECURSIVE to_greet_from(_, _, _, _)
to_greet_from(b, today, i, to_greet) ==
    IF i > Len(b.order) THEN Ok(to_greet)
    ELSE LET record == b.data[b.order[i]] IN
         IF record.birthday = None
         THEN to_greet_from(b, today, i + 1, to_greet)
         ELSE LET r == birthday_this_year(record.birthday, today) IN
              IF r.exc # "" THEN r
              ELSE IF DateLe(today, r.val) /\ DateLe(r.val, AddDays(today, 7))
                   THEN to_greet_from(b, today, i + 1,
                            Append(to_greet,
                                [name |-> record.name,
                                 congratulation_date |->
                                     strftime(congratulation_date(r.val))]))
                   ELSE to_greet_from(b, today, i + 1, to_greet)

\* AddressBook.get_upcoming_birthdays, today being datetime.date.today()
get_upcoming_birthdays(b, today) == to_greet_from(b, today, 1, <<>>)

----------------------------------------------------------------------------
(* Persistence: pickle writes the entries in dict order, each record's      *)
(* fields, and a date as its four state bytes (year high, year low, month,  *)
(* day); None is written as no bytes                                        *)

NoFile == [exists |-> FALSE, bytes |-> <<>>]

\* a date written with the low byte of its year only
dump_date_low_byte(d) ==
    IF d = None THEN <<>>
    ELSE <<0, d.year % 256, d.month, d.day>>

dump_date(d) ==
    IF d = None THEN <<>>
    ELSE <<d.year \div 256, d.year % 256, d.month, d.day>>

load_date(bytes) ==
    IF bytes = <<>> THEN None
    ELSE date(bytes[1] * 256 + bytes[2], bytes[3], bytes[4])

dump_record(key, rec) ==
    [key |-> key, name |-> rec.name, phones |-> rec.phones,
     birthday |-> dump_date(rec.birthday)]

pickle_dump(b) == [i \in 1..Len(b.order) |-> dump_record(b.order[i], b.data[b.order[i]])]

RECURSIVE pickle_load_from(_, _, _)
pickle_load_from(bytes, i, b) ==
    IF i > Len(bytes) THEN b
    ELSE pickle_load_from(bytes, i + 1,
            SetItem(b, bytes[i].key,
                [name |-> bytes[i].name, phones |-> bytes[i].phones,
                 birthday |-> load_date(bytes[i].birthday)]))

pickle_load(bytes) == pickle_load_from(bytes, 1, AddressBook)

\* save_data pickling a new AddressBook in place of the one it is given
save_data_new_book(b) == [exists |-> TRUE, bytes |-> pickle_dump(AddressBook)]

\* save_data: the file after the call
save_data(b) == [exists |-> TRUE, bytes |-> pickle_dump(b)]

\* load_data: the book read from the file, a new one when there is no file
load_data(f) == IF f.exists THEN pickle_load(f.bytes) ELSE AddressBook

----------------------------------------------------------------------------
(* Command layer.  A printed message is [text, args]: the literal text with *)
(* {} where a str value is interpolated, and those values in order.  A      *)
(* handler's outcome is [book, exc, msg, val]: the book after the call and  *)
(* the returned message or the raised exception.                           *)

Msg(text, args) == [text |-> text, args |-> args]

Returns(b, m) == [book |-> b, exc |-> "", msg |-> "", val |-> m]

Raises(b, e, m) == [book |-> b, exc |-> e, msg |-> m, val |-> Msg("", <<>>)]

GotText(n) == IF n = 0 THEN "got 0)" ELSE "got 1)"

\* input_error: the wrapped handler's message, or the text for its exception
input_error(r) ==
    [book |-> r.book,
     val  |-> IF r.exc = "" THEN r.val
              ELSE IF r.exc = "IndexError"
                   THEN Msg("Error: Incorrect number of arguments.", <<>>)
              ELSE IF r.exc = "KeyError"
                   THEN Msg("Error: Contact not found.", <<>>)
              ELSE IF r.exc = "ValueError"
                   THEN Msg("Error: " \o r.msg, <<>>)
              ELSE IF r.exc = "TypeError"
                   THEN Msg("Error: Invalid input type. " \o r.msg, <<>>)
              ELSE Msg("Unexpected error: " \o r.msg, <<>>)]

\* parse_input: the tokens of the stripped, casefolded line; unpacking
\* cmd, *args from no token raises ValueError
parse_input(user_input) ==
    LET tokens == split(casefold(strip(user_input))) IN
    IF tokens = <<>>
    THEN Raise("ValueError", "not enough values to unpack (expected at least 1, got 0)")
    ELSE Ok(tokens)

\* add_contact making a new Record without looking the name up
add_contact_always_new(args, b) ==
    IF Len(args) < 2
    THEN Raises(b, "ValueError",
                "not enough values to unpack (expected at least 2, " \o GotText(Len(args)))
    ELSE LET n == Record(args[1]) IN
         IF n.exc # "" THEN Raises(b, n.exc, n.msg)
         ELSE LET b1 == add_record(b, n.val)
                  r == add_phone(n.val, args[2])
              IN  IF r.exc # "" THEN Raises(b1, r.exc, r.msg)
                  ELSE Returns(SetItem(b1, args[1], r.self), Msg("Contact added.", <<>>))

\* add_contact without its decorator
add_contact_body(args, b) ==
    IF Len(args) < 2
    THEN Raises(b, "ValueError",
                "not enough values to unpack (expected at least 2, " \o GotText(Len(args)))
    ELSE LET name == args[1]
             phone == args[2]
             found == find_record(b, name)
         IN  IF found.found
             THEN IF phone # <<>>
                  THEN LET r == add_phone(found.rec, phone) IN
                       IF r.exc # "" THEN Raises(b, r.exc, r.msg)
                       ELSE Returns(SetItem(b, name, r.self), Msg("Contact updated.", <<>>))
                  ELSE Returns(b, Msg("Contact updated.", <<>>))
             ELSE LET n == Record(name) IN
                  IF n.exc # "" THEN Raises(b, n.exc, n.msg)
                  ELSE LET b1 == add_record(b, n.val) IN
                       IF phone # <<>>
                       THEN LET r == add_phone(n.val, phone) IN
                            IF r.exc # "" THEN Raises(b1, r.exc, r.msg)
                            ELSE Returns(SetItem(b1, name, r.self),
                                         Msg("Contact added.", <<>>))
                       ELSE Returns(b1, Msg("Contact added.", <<>>))

add_contact(args, b) == input_error(add_contact_body(args, b))

\* change_contact without its decorator
change_contact_body(args, b) ==
    IF Len(args) < 3 THEN Raises(b, "IndexError", "")
    ELSE IF Len(args) > 3
    THEN Raises(b, "ValueError", "too many values to unpack (expected 3)")
    ELSE LET name == args[1]
             old_phone == args[2]
             new_phone == args[3]
             found == find_record(b, name)
         IN  IF ~found.found THEN Raises(b, "KeyError", "Contact not found.")
             ELSE LET r == update_phone(found.rec, old_phone, new_phone) IN
                  IF r.exc # "" THEN Raises(b, r.exc, r.msg)
                  ELSE Returns(SetItem(b, name, r.self),
                               Msg("Phone for {} updated: {} > {}",
                                   <<name, old_phone, new_phone>>))

change_contact(args, b) == input_error(change_contact_body(args, b))

\* show_phone joining the phones without asking whether there are any
show_phone_joins_always(args, b) ==
    IF Len(args) # 1 THEN Raises(b, "IndexError", "")
    ELSE LET name == args[1]
             found == find_record(b, name)
         IN  IF ~found.found THEN Raises(b, "KeyError", "Contact not found")
             ELSE Returns(b, Msg("{}'s phone number(s): {}",
                                 <<name, join(<<",", " ">>, found.rec.phones)>>))

\* show_phone without its decorator
show_phone_body(args, b) ==
    IF Len(args) # 1 THEN Raises(b, "IndexError", "")
    ELSE LET name == args[1]
             found == find_record(b, name)
         IN  IF ~found.found THEN Raises(b, "KeyError", "Contact not found")
             ELSE IF found.rec.phones = <<>>
                  THEN Returns(b, Msg("{} has no phone numbers.", <<name>>))
                  ELSE Returns(b, Msg("{}'s phone number(s): {}",
                                      <<name, join(<<",", " ">>, found.rec.phones)>>))

show_phone(args, b) == input_error(show_phone_body(args, b))

RECURSIVE Repeat(_, _)
Repeat(text, n) == IF n = 0 THEN "" ELSE text \o Repeat(text, n - 1)

\* show_all without its decorator
show_all_body(b) ==
    IF b.order = <<>> THEN Returns(b, Msg("No contacts found.", <<>>))
    ELSE Returns(b, Msg(Repeat("\n{}", Len(b.order)),
                        [i \in 1..Len(b.order) |-> Record_str(b.data[b.order[i]])]))

show_all(b) == input_error(show_all_body(b))

\* add_birthday without its decorator; find_record's None is no str, so
\* a missing contact reaches record.add_birthday
add_birthday_body(args, b) ==
    IF Len(args) < 2
    THEN Raises(b, "ValueError",
                "not enough values to unpack (expected 2, " \o GotText(Len(args)))
    ELSE IF Len(args) > 2
    THEN Raises(b, "ValueError", "too many values to unpack (expected 2)")
    ELSE LET name == args[1]
             birthday == args[2]
             found == find_record(b, name)
         IN  IF ~found.found
             THEN Raises(b, "AttributeError",
                         "'NoneType' object has no attribute 'add_birthday'")
             ELSE LET r == Record_add_birthday(found.rec, birthday) IN
                  IF r.exc # "" THEN Raises(b, r.exc, r.msg)
                  ELSE Returns(SetItem(b, name, r.self),
                               Msg("Birthday added for {}.", <<name>>))

add_birthday(args, b) == input_error(add_birthday_body(args, b))

\* show_birthday without its decorator
show_birthday_body(args, b) ==
    IF Len(args) < 1 THEN Raises(b, "IndexError", "list index out of range")
    ELSE LET name == args[1]
             found == find_record(b, name)
         IN  IF ~found.found
             THEN Raises(b, "AttributeError",
                         "'NoneType' object has no attribute 'birthday'")
             ELSE IF found.rec.birthday = None
                  THEN Returns(b, Msg("No birthday recorded for {}.", <<name>>))
                  ELSE Returns(b, Msg("{}'s birthday: {}",
                                      <<name, strftime(found.rec.birthday)>>))

show_birthday(args, b) == input_error(show_birthday_body(args, b))

RECURSIVE ItemArgs(_)
ItemArgs(upcoming) ==
    IF upcoming = <<>> THEN <<>>
    ELSE <<Head(upcoming).name, Head(upcoming).congratulation_date>>
            \o ItemArgs(Tail(upcoming))

\* birthdays without its decorator
birthdays_body(b, today) ==
    LET upcoming == get_upcoming_birthdays(b, today) IN
    IF upcoming.exc # "" THEN Raises(b, upcoming.exc, upcoming.msg)
    ELSE IF upcoming.val = <<>>
         THEN Returns(b, Msg("No birthdays in the upcoming week.", <<>>))
         ELSE Returns(b, Msg("{} - {}" \o Repeat("\n{} - {}", Len(upcoming.val) - 1),
                             ItemArgs(upcoming.val)))

birthdays(b, today) == input_error(birthdays_body(b, today))

----------------------------------------------------------------------------
(* main: the command words of its match statement *)

cmd_close == <<"c", "l", "o", "s", "e">>
cmd_exit == <<"e", "x", "i", "t">>
cmd_hello == <<"h", "e", "l", "l", "o">>
cmd_add == <<"a", "d", "d">>
cmd_change == <<"c", "h", "a", "n", "g", "e">>
cmd_phone == <<"p", "h", "o", "n", "e">>
cmd_all == <<"a", "l", "l">>
cmd_add_birthday == <<"a", "d", "d", "-", "b", "i", "r", "t", "h", "d", "a", "y">>
cmd_show_birthday == <<"s", "h", "o", "w", "-", "b", "i", "r", "t", "h", "d", "a", "y">>
cmd_birthdays == <<"b", "i", "r", "t", "h", "d", "a", "y", "s">>

\* one case of the match statement: [book, val] as a handler returns them
dispatch(command, args, b, today) ==
    IF command = cmd_hello THEN [book |-> b, val |-> Msg("How can I help you?", <<>>)]
    ELSE IF command = cmd_add THEN add_contact(args, b)
    ELSE IF command = cmd_change THEN change_contact(args, b)
    ELSE IF command = cmd_phone THEN show_phone(args, b)
    ELSE IF command = cmd_all THEN show_all(b)
    ELSE IF command = cmd_add_birthday THEN add_birthday(args, b)
    ELSE IF command = cmd_show_birthday THEN show_birthday(args, b)
    ELSE IF command = cmd_birthdays THEN birthdays(b, today)
    ELSE [book |-> b, val |-> Msg("Invalid command.", <<>>)]

Op(op, args, today) == [op |-> op, args |-> args, today |-> today]

NoRet == Ok(<<>>)

----------------------------------------------------------------------------
(* Inputs *)

al == <<"a", "l">>
bo == <<"b", "o">>
NameTokens == {al, bo}

phone1 == <<"0", "5", "0", "1", "2", "3", "4", "5", "6", "7">>
phone2 == <<"0", "6", "7", "9", "8", "7", "6", "5", "4", "3">>
shortPhone == <<"5", "5", "5", "1", "2">>
GoodPhones == {phone1, phone2}
PhoneTokens == GoodPhones \cup {shortPhone}

\* 07.11.1990, 29.02.2000, 7.3.2001, 1990-11-07, 31.04.1999
day1 == <<"0", "7", ".", "1", "1", ".", "1", "9", "9", "0">>
dayLeap == <<"2", "9", ".", "0", "2", ".", "2", "0", "0", "0">>
dayShort == <<"7", ".", "3", ".", "2", "0", "0", "1">>
dayIso == <<"1", "9", "9", "0", "-", "1", "1", "-", "0", "7">>
dayApril31 == <<"3", "1", ".", "0", "4", ".", "1", "9", "9", "9">>
DayTokens == {day1, dayLeap, dayShort, dayIso, dayApril31}

\* the arguments typed after each command word
ArgLists(command) ==
    IF command = cmd_add
    THEN {<<>>, <<al>>, <<al, phone1, bo>>}
            \cup {<<n, p>> : n \in NameTokens, p \in PhoneTokens}
    ELSE IF command = cmd_change
    THEN {<<>>, <<al>>, <<al, phone1>>, <<al, phone1, phone2, phone1>>,
          <<al, phone1, phone2>>, <<al, phone2, phone1>>, <<al, phone1, shortPhone>>,
          <<al, shortPhone, phone1>>, <<bo, phone1, phone2>>, <<bo, phone1, shortPhone>>}
    ELSE IF command = cmd_phone
    THEN {<<>>, <<al>>, <<bo>>, <<al, bo>>}
    ELSE IF command = cmd_add_birthday
    THEN {<<>>, <<al>>, <<al, day1, day1>>}
            \cup {<<n, d>> : n \in NameTokens, d \in DayTokens}
    ELSE IF command = cmd_show_birthday
    THEN {<<>>, <<al>>, <<bo>>, <<al, bo>>}
    ELSE {<<>>}

cmd_quit == <<"q", "u", "i", "t">>

Commands == {cmd_close, cmd_exit, cmd_hello, cmd_add, cmd_change, cmd_phone, cmd_all,
             cmd_add_birthday, cmd_show_birthday, cmd_birthdays, cmd_quit}

\* the lines typed at the prompt: the empty line, blank lines, a line in
\* capitals with surrounding blanks, and every command with its arguments
Lines ==
    {<<>>, <<" ", " ">>, <<"\t">>,
     <<" ", "A", "d", "d", " ", " ", "A", "L", "\t">> \o phone1 \o <<" ">>}
        \cup UNION {{join(<<" ">>, <<c>> \o a) : a \in ArgLists(c)} : c \in Commands}

\* values of datetime.date.today(): 2026-11-02 (07.11 is the Saturday of its
\* week), 2024-02-25 (29.02 is in its week), 2026-12-28
Todays == {date(2026, 11, 2), date(2024, 2, 25), date(2026, 12, 28)}

\* parse_input tabulated over the lines typed
ParsedLines == [l \in Lines |-> parse_input(l)]

----------------------------------------------------------------------------
(* main *)

NoRecord == [name |-> <<>>, phones |-> <<>>, birthday |-> None]

Init ==
    /\ book = AddressBook
    /\ contact = NoRecord
    /\ pre = AddressBook
    /\ last = Op("none", <<>>, None)
    /\ out = Msg("", <<>>)
    /\ ret = NoRet
    /\ file = NoFile
    /\ pc = "idle"
    /\ nlines = 0

\* main up to its first input(): the book is loaded from the file
Start ==
    /\ pc \in {"idle", "closed", "crashed"}
    /\ book' = load_data(file)
    /\ pre' = book
    /\ last' = Op("main after " \o pc, <<>>, None)
    /\ out' = Msg("Welcome to the assistant bot!", <<>>)
    /\ pc' = "print"
    /\ UNCHANGED <<contact, ret, file, nlines>>

\* the loop comes back to input("Enter a command: ")
Prompt ==
    /\ pc = "print"
    /\ pc' = "input"
    /\ pre' = book
    /\ last' = Op("prompt", <<>>, None)
    /\ out' = Msg("Enter a command: ", <<>>)
    /\ UNCHANGED <<book, contact, ret, file, nlines>>

\* parse_input raises on a line without a token: nothing in main catches it
Crash(user_input) ==
    /\ pc = "input"
    /\ nlines < MaxLines
    /\ LET p == ParsedLines[user_input] IN
           /\ p.exc # ""
           /\ out' = Msg("Traceback: ValueError: " \o p.msg, <<>>)
    /\ pc' = "crashed"
    /\ pre' = book
    /\ last' = Op("input", <<user_input>>, None)
    /\ nlines' = nlines + 1
    /\ UNCHANGED <<book, contact, ret, file>>

\* close and exit: print, save the book, leave the loop
Close(user_input) ==
    /\ pc = "input"
    /\ nlines < MaxLines
    /\ LET p == ParsedLines[user_input] IN
           /\ p.exc = ""
           /\ Head(p.val) \in {cmd_close, cmd_exit}
    /\ pc' = "closed"
    /\ pre' = book
    /\ last' = Op("input", <<user_input>>, None)
    /\ out' = Msg("Good bye!", <<>>)
    /\ file' = save_data(book)
    /\ nlines' = nlines + 1
    /\ UNCHANGED <<book, contact, ret>>

\* every other case of the match statement: the handler's message is printed;
\* today is what datetime.date.today() answers when birthdays asks it
Command(user_input, today) ==
    /\ pc = "input"
    /\ nlines < MaxLines
    /\ LET p == ParsedLines[user_input] IN
           /\ p.exc = ""
           /\ Head(p.val) \notin {cmd_close, cmd_exit}
           /\ today = None <=> Head(p.val) # cmd_birthdays
           /\ LET r == dispatch(Head(p.val), Tail(p.val), book, today) IN
                  /\ book' = r.book
                  /\ out' = r.val
    /\ pc' = "print"
    /\ pre' = book
    /\ last' = Op("input", <<user_input>>, today)
    /\ nlines' = nlines + 1
    /\ UNCHANGED <<contact, ret, file>>

\* input() at end of input raises EOFError: nothing in main catches it
EndOfInput ==
    /\ pc = "input"
    /\ pc' = "crashed"
    /\ pre' = book
    /\ last' = Op("eof", <<>>, None)
    /\ out' = Msg("Traceback: EOFError: EOF when reading a line", <<>>)
    /\ UNCHANGED <<book, contact, ret, file, nlines>>

Next ==
    \/ Start
    \/ Prompt
    \/ \E user_input \in Lines : Crash(user_input)
    \/ \E user_input \in Lines : Close(user_input)
    \/ \E user_input \in Lines, today \in Todays \cup {None} : Command(user_input, today)
    \/ EndOfInput

Spec == Init /\ [][Next]_vars

----------------------------------------------------------------------------
(* SpecRecord: the methods of one Record called directly.  ret is the       *)
(* call's outcome, pre the record before the call.                         *)

Outcome(r) == [exc |-> r.exc, msg |-> r.msg, val |-> r.val]

InitRecord ==
    /\ contact = Record(al).val
    /\ pre = Record(al).val
    /\ last = Op("Record", <<al>>, None)
    /\ ret = NoRet
    /\ book = AddressBook
    /\ out = Msg("", <<>>)
    /\ file = NoFile
    /\ pc = "idle"
    /\ nlines = 0

Called(op, args, r) ==
    /\ pre' = contact
    /\ contact' = r.self
    /\ ret' = Outcome(r)
    /\ last' = Op(op, args, None)
    /\ UNCHANGED <<book, out, file, pc, nlines>>

CallAddPhone(number) ==
    /\ Len(contact.phones) < MaxPhones
    /\ Called("add_phone", <<number>>, add_phone(contact, number))

CallDeletePhone(number) ==
    Called("delete_phone", <<number>>, delete_phone(contact, number))

CallUpdatePhone(old_number, new_number) ==
    Called("update_phone", <<old_number, new_number>>,
           update_phone(contact, old_number, new_number))

CallFindPhone(number) ==
    Called("find_phone", <<number>>, find_phone(contact, number))

CallAddBirthday(day) ==
    Called("add_birthday", <<day>>, Record_add_birthday(contact, day))

\* the numbers given to a record's methods: also one of 11 characters
longPhone == phone1 \o <<"8">>
RecordPhones == PhoneTokens \cup {longPhone}

NextRecord ==
    \/ \E number \in RecordPhones : CallAddPhone(number)
    \/ \E number \in RecordPhones : CallDeletePhone(number)
    \/ \E old_number, new_number \in RecordPhones : CallUpdatePhone(old_number, new_number)
    \/ \E number \in RecordPhones : CallFindPhone(number)
    \/ \E day \in DayTokens : CallAddBirthday(day)

SpecRecord == InitRecord /\ [][NextRecord]_vars

----------------------------------------------------------------------------
(* SpecBook: the methods of one AddressBook called directly, and            *)
(* add_birthday on the records it holds.                                   *)

\* birthdays around the days asked for: the same day, 7 and 8 days later,
\* the day before, a Saturday, a Sunday, the turn of the year, 29 February
BirthDates ==
    {date(1990, 11, 2), date(1990, 11, 9), date(1990, 11, 10), date(1990, 11, 1),
     date(1990, 11, 7), date(1985, 11, 8), date(1990, 1, 1), date(1990, 1, 3),
     date(1990, 12, 31), date(2000, 2, 29)}

BookDays == {strftime(d) : d \in BirthDates} \cup {dayShort, dayIso}

\* values of datetime.date.today(): a Monday, the Saturday of its week, the
\* Saturday before it, the last Monday of a year, and days before and after
\* 29 February in a leap year and in a common year
BookTodays ==
    {date(2026, 11, 2), date(2026, 11, 7), date(2026, 10, 31), date(2026, 12, 28),
     date(2024, 2, 25), date(2024, 3, 1), date(2025, 2, 25)}

InitBook ==
    /\ book = AddressBook
    /\ pre = AddressBook
    /\ last = Op("AddressBook", <<>>, None)
    /\ ret = NoRet
    /\ contact = NoRecord
    /\ out = Msg("", <<>>)
    /\ file = NoFile
    /\ pc = "idle"
    /\ nlines = 0

BookCalled(op, args, today, b, r) ==
    /\ pre' = book
    /\ book' = b
    /\ ret' = r
    /\ last' = Op(op, args, today)
    /\ UNCHANGED <<contact, out, file, pc, nlines>>

\* book.add_record(Record(name))
CallAddRecord(name) ==
    LET r == Record(name) IN
    IF r.exc # ""
    THEN BookCalled("add_record", <<name>>, None, book, r)
    ELSE BookCalled("add_record", <<name>>, None, add_record(book, r.val), NoRet)

\* book.find_record(name): ret.val is the found record's name, <<>> for None
CallFindRecord(name) ==
    BookCalled("find_record", <<name>>, None, book, Ok(find_record(book, name).rec.name))

CallDeleteRecord(name) ==
    BookCalled("delete_record", <<name>>, None, delete_record(book, name), NoRet)

\* book.find_record(name).add_birthday(day) on a record the book holds
CallRecordAddBirthday(name, day) ==
    /\ Has(book, name)
    /\ LET r == Record_add_birthday(book.data[name], day) IN
       BookCalled("add_birthday", <<name, day>>, None, SetItem(book, name, r.self),
                  Outcome(r))

\* book.get_upcoming_birthdays() on a day today
CallGetUpcomingBirthdays(today) ==
    BookCalled("get_upcoming_birthdays", <<>>, today, book,
               get_upcoming_birthdays(book, today))

NextBook ==
    \/ \E name \in NameTokens \cup {<<>>} : CallAddRecord(name)
    \/ \E name \in NameTokens : CallFindRecord(name)
    \/ \E name \in NameTokens : CallDeleteRecord(name)
    \/ \E name \in NameTokens, day \in BookDays : CallRecordAddBirthday(name, day)
    \/ \E today \in BookTodays : CallGetUpcomingBirthdays(today)

SpecBook == InitBook /\ [][NextBook]_vars

----------------------------------------------------------------------------
(* SpecEntries: add_record given records that already hold phones and a     *)
(* birthday, with find_record and delete_record.                           *)

EntryPhones == {<<>>, <<phone1>>, <<phone2, phone1>>}

RECURSIVE add_phones(_, _)
add_phones(self, numbers) ==
    IF numbers = <<>> THEN self
    ELSE add_phones(add_phone(self, Head(numbers)).self, Tail(numbers))

\* Record(name), then add_phone for each number, then add_birthday or not
EntryRecords ==
    {LET r == add_phones(Record(name).val, numbers) IN
     IF day = <<>> THEN r ELSE Record_add_birthday(r, day).self :
        name \in NameTokens, numbers \in EntryPhones, day \in {<<>>, day1}}

InitEntries == InitBook

\* book.add_record(rec); contact is the record given
CallAddRecordObject(rec) ==
    /\ pre' = book
    /\ book' = add_record(book, rec)
    /\ contact' = rec
    /\ ret' = NoRet
    /\ last' = Op("add_record", <<rec.name>>, None)
    /\ UNCHANGED <<out, file, pc, nlines>>

NextEntries ==
    \/ \E rec \in EntryRecords : CallAddRecordObject(rec)
    \/ \E name \in NameTokens : CallFindRecord(name)
    \/ \E name \in NameTokens : CallDeleteRecord(name)

SpecEntries == InitEntries /\ [][NextEntries]_vars

----------------------------------------------------------------------------
(* Claims about main and the command layer, checked under Spec *)

\* parse_input's outcome for the line main read last
Tokens == ParsedLines[last.args[1]]

\* the number of arguments the dispatch table asks of a command
Required(command) ==
    IF command = cmd_add THEN 2
    ELSE IF command = cmd_change THEN 3
    ELSE IF command = cmd_phone THEN 1
    ELSE IF command = cmd_add_birthday THEN 2
    ELSE IF command = cmd_show_birthday THEN 1
    ELSE 0

Count(order, name) == Cardinality({i \in 1..Len(order) : order[i] = name})

EndsWith(phones, p1, p2) ==
    /\ Len(phones) >= 2
    /\ phones[Len(phones) - 1] = p1
    /\ phones[Len(phones)] = p2

\* C1: whatever line is read, and whatever the book holds, a message is
\* printed and main is back at its prompt, or closed when the line was close
\* or exit: no exception escapes main.
C1_NoExceptionEscapes ==
    last.op = "input" =>
        /\ pc \in {"print", "closed"}
        /\ out.text # ""
        /\ pc = "closed" <=> (Tokens.exc = "" /\ Head(Tokens.val) \in {cmd_close, cmd_exit})

\* C2: from every book, add(name, p1) and then add(name, p2) with valid
\* p1 # p2 leave one record under name whose phones end with p1, p2 and add
\* no second entry for name; when name was absent the first call answers
\* "Contact added." and the second "Contact updated.".
C2_AddTwice ==
    \A name \in NameTokens, p1, p2 \in GoodPhones :
        p1 # p2 =>
            LET r1 == add_contact(<<name, p1>>, book)
                r2 == add_contact(<<name, p2>>, r1.book)
            IN  /\ Count(r2.book.order, name) = 1
                /\ Len(r2.book.order) = Len(book.order) + (IF Has(book, name) THEN 0 ELSE 1)
                /\ r2.book.data[name].name = name
                /\ EndsWith(r2.book.data[name].phones, p1, p2)
                /\ ~Has(book, name) =>
                        /\ r1.val = Msg("Contact added.", <<>>)
                        /\ r2.val = Msg("Contact updated.", <<>>)
                        /\ r2.book.data[name].phones = <<p1, p2>>

\* the second of two add lines for al has been handled
C2_Witness ==
    /\ last.op = "input"
    /\ Tokens.exc = ""
    /\ Tokens.val = <<cmd_add, al, phone2>>
    /\ out = Msg("Contact updated.", <<>>)
    /\ Has(pre, al)
    /\ pre.data[al].phones = <<phone1>>
    /\ book.data[al].phones = <<phone1, phone2>>
    /\ Count(book.order, al) = 1

\* C3: add(name, p) with a valid p on a book without name adds exactly one
\* record, keyed by name, whose phones are [p], and changes no other record.
C3_AddNewName ==
    (/\ last.op = "input"
     /\ Tokens.exc = ""
     /\ Head(Tokens.val) = cmd_add
     /\ Len(Tokens.val) >= 3
     /\ ~Has(pre, Tokens.val[2])
     /\ Len(Tokens.val[3]) = 10) =>
        LET name == Tokens.val[2]
            phone == Tokens.val[3]
        IN  /\ Len(book.order) = Len(pre.order) + 1
            /\ Keys(book) = Keys(pre) \cup {name}
            /\ book.data[name].name = name
            /\ book.data[name].phones = <<phone>>
            /\ \A k \in Keys(pre) : book.data[k] = pre.data[k]

\* bo has been added to a book that held al
C3_Witness ==
    /\ last.op = "input"
    /\ Tokens.exc = ""
    /\ Tokens.val = <<cmd_add, bo, phone2>>
    /\ Keys(pre) = {al}
    /\ pre.data[al].phones # <<>>
    /\ Keys(book) = {al, bo}
    /\ book.data[bo].phones = <<phone2>>

\* C4: a command given fewer arguments than its row of the dispatch table
\* asks for answers "Incorrect number of arguments".
C4_TooFewArguments ==
    (/\ last.op = "input"
     /\ Tokens.exc = ""
     /\ Len(Tokens.val) - 1 < Required(Head(Tokens.val))) =>
        out = Msg("Error: Incorrect number of arguments.", <<>>)

\* C5: change, phone, add-birthday and show-birthday, given the arguments
\* they ask for and a name the book does not hold, answer "Contact not
\* found" and leave the book as it was.
C5_ContactNotFound ==
    (/\ last.op = "input"
     /\ Tokens.exc = ""
     /\ Head(Tokens.val) \in {cmd_change, cmd_phone, cmd_add_birthday, cmd_show_birthday}
     /\ Len(Tokens.val) - 1 = Required(Head(Tokens.val))
     /\ ~Has(pre, Tokens.val[2])) =>
        /\ out.text \in {"Error: Contact not found.", "Contact not found."}
        /\ book = pre

\* C9: the book loaded from the file save_data wrote is the book saved, and
\* a session started after close or exit starts with the book as it was at
\* the close.
C9_RoundTrip ==
    /\ [](load_data(save_data(book)) = book)
    /\ [][(pc = "closed" /\ pc' = "print") => book' = book]_vars

\* a session has started from the file the session before it wrote at close
C9_Witness ==
    /\ last.op = "main after closed"
    /\ file.exists
    /\ book = pre
    /\ \E k \in Keys(book) : book.data[k].phones # <<>> /\ book.data[k].birthday # None

----------------------------------------------------------------------------
(* Claims about Record, checked under SpecRecord *)

\* C6: delete_phone(n) on a record without a phone equal to n raises the
\* not-found error and leaves the phones as they were; otherwise it removes
\* every phone equal to n, keeps the others in their order, and find_phone(n)
\* then returns None.
C6_DeletePhone ==
    last.op = "delete_phone" =>
        LET n == last.args[1] IN
        IF \A i \in 1..Len(pre.phones) : pre.phones[i] # n
        THEN /\ ret.exc = "ValueError"
             /\ ret.msg = "Phone number was not found"
             /\ contact = pre
        ELSE /\ ret.exc = ""
             /\ contact.phones = SelectSeq(pre.phones, LAMBDA p : p # n)
             /\ find_phone(contact, n).val = <<>>

\* a number held twice has been deleted from between and around another
C6_Witness ==
    /\ last.op = "delete_phone"
    /\ last.args = <<phone1>>
    /\ pre.phones = <<phone1, phone2, phone1>>
    /\ contact.phones = <<phone2>>
    /\ ret.exc = ""

\* C7: update_phone(old, new) on a record without a phone equal to old
\* raises the not-found error and leaves the phones as they were, whether or
\* not new is a valid phone.
C7_UpdateMissing ==
    (/\ last.op = "update_phone"
     /\ \A i \in 1..Len(pre.phones) : pre.phones[i] # last.args[1]) =>
        /\ ret.exc = "ValueError"
        /\ ret.msg = "Old number was not found"
        /\ contact.phones = pre.phones

\* update_phone was given a missing old number and an invalid new one
C7_Witness ==
    /\ last.op = "update_phone"
    /\ last.args = <<phone2, shortPhone>>
    /\ pre.phones = <<phone1, phone1>>
    /\ ret.msg = "Old number was not found"
    /\ contact.phones = <<phone1, phone1>>

\* DD.MM.YYYY: two digits, a dot, two digits, a dot, four digits
IsDDMMYYYY(s) ==
    /\ Len(s) = 10
    /\ s[3] = "."
    /\ s[6] = "."
    /\ \A i \in {1, 2, 4, 5, 7, 8, 9, 10} : IsDigit(s[i])

\* C10: a birthday once set never changes; add_birthday on a record that has
\* one raises the already-set error; add_birthday with a string that is not
\* DD.MM.YYYY raises the validation error and leaves a record without a
\* birthday without one.
C10_BirthdaySetOnce ==
    /\ pre.birthday # None => contact.birthday = pre.birthday
    /\ last.op = "add_birthday" =>
          /\ pre.birthday # None =>
                /\ ret.exc = "Exception"
                /\ ret.msg = "Birthday has already been added"
          /\ (pre.birthday = None /\ ~IsDDMMYYYY(last.args[1])) =>
                /\ ret.exc = "ValueError"
                /\ contact.birthday = None

\* C16: update_phone(old, new) on a record holding a phone equal to old,
\* with a valid new, puts new at the position of the first such phone and
\* leaves the length and every other position, later phones equal to old
\* included, as they were; with an invalid new it raises the validation
\* error and leaves the phones as they were.
C16_UpdateFirstMatch ==
    (/\ last.op = "update_phone"
     /\ \E i \in 1..Len(pre.phones) : pre.phones[i] = last.args[1]) =>
        LET old == last.args[1]
            new == last.args[2]
            first == CHOOSE i \in 1..Len(pre.phones) :
                        /\ pre.phones[i] = old
                        /\ \A j \in 1..(i - 1) : pre.phones[j] # old
        IN  IF Len(new) = 10
            THEN /\ ret.exc = ""
                 /\ Len(contact.phones) = Len(pre.phones)
                 /\ contact.phones[first] = new
                 /\ \A j \in 1..Len(pre.phones) :
                       j # first => contact.phones[j] = pre.phones[j]
                 /\ contact.name = pre.name
                 /\ contact.birthday = pre.birthday
            ELSE /\ ret.exc = "ValueError"
                 /\ ret.msg = "Phone number should be 10 digits"
                 /\ contact = pre

\* the second of three phones was the first equal to old, the third a later one
C16_Witness ==
    /\ last.op = "update_phone"
    /\ last.args = <<phone1, phone2>>
    /\ pre.phones = <<phone2, phone1, phone1>>
    /\ contact.phones = <<phone2, phone2, phone1>>
    /\ ret.exc = ""

\* C17: after any sequence of add_phone, update_phone and delete_phone,
\* successful or not, every phone of the record has length 10; add_phone and
\* update_phone given a phone of another length raise a validation error and
\* store nothing.
C17_PhonesHaveLength10 ==
    /\ \A i \in 1..Len(contact.phones) : Len(contact.phones[i]) = 10
    /\ (last.op = "add_phone" /\ Len(last.args[1]) # 10) =>
          /\ ret.exc = "ValueError"
          /\ ret.msg = "Phone number should be 10 digits"
          /\ contact = pre
    /\ (last.op = "update_phone" /\ Len(last.args[2]) # 10) =>
          /\ ret.exc = "ValueError"
          /\ contact = pre

\* add_phone was given a phone of 5 characters on a record holding two phones
C17_Witness ==
    /\ last.op = "add_phone"
    /\ last.args = <<shortPhone>>
    /\ pre.phones = <<phone1, phone2>>
    /\ ret.exc = "ValueError"
    /\ contact.phones = <<phone1, phone2>>

----------------------------------------------------------------------------
(* Claims about AddressBook, checked under SpecBook *)

\* some day of the 8 days from today on has the birthday's month and day
InWindow(birthday, today) ==
    \E k \in 0..7 :
        /\ AddDays(today, k).month = birthday.month
        /\ AddDays(today, k).day = birthday.day

Listed(upcoming, name) == \E i \in 1..Len(upcoming) : upcoming[i].name = name

\* C8: get_upcoming_birthdays lists a record exactly when it has a birthday
\* whose next occurrence on or after today is today or one of the 7 days
\* after it, for every birthday, 29 February included.
C8_UpcomingWindow ==
    last.op = "get_upcoming_birthdays" =>
        /\ ret.exc = ""
        /\ \A k \in Keys(book) :
              Listed(ret.val, k) <=>
                  (/\ book.data[k].birthday # None
                   /\ InWindow(book.data[k].birthday, last.today))

\* C14: every date get_upcoming_birthdays reports is a Monday to Friday: an
\* occurrence on a Saturday is reported 2 days later and one on a Sunday 1
\* day later, also when that Monday is after today + 7 days, and an
\* occurrence on a Monday to Friday is reported as it is.
C14_WeekdaysOnly ==
    (last.op = "get_upcoming_birthdays" /\ ret.exc = "") =>
        \A i \in 1..Len(ret.val) :
            LET reported == strptime(ret.val[i].congratulation_date).val
                birthday == book.data[ret.val[i].name].birthday
            IN  /\ weekday(reported) \in 0..4
                /\ \E k \in 0..7 :
                      LET occurrence == AddDays(last.today, k) IN
                      /\ occurrence.month = birthday.month
                      /\ occurrence.day = birthday.day
                      /\ reported = IF weekday(occurrence) = 5
                                    THEN AddDays(occurrence, 2)
                                    ELSE IF weekday(occurrence) = 6
                                         THEN AddDays(occurrence, 1)
                                         ELSE occurrence

\* on Saturday 31.10.2026 a birthday of Sunday 01.11 is reported for Monday
\* 02.11 and one of Saturday 07.11 for Monday 09.11, after today + 7 days
C14_Witness ==
    /\ last.op = "get_upcoming_birthdays"
    /\ last.today = date(2026, 10, 31)
    /\ ret.exc = ""
    /\ Len(ret.val) = 2
    /\ ret.val[1].congratulation_date = strftime(date(2026, 11, 2))
    /\ book.data[ret.val[1].name].birthday = date(1990, 11, 1)
    /\ ret.val[2].congratulation_date = strftime(date(2026, 11, 9))
    /\ book.data[ret.val[2].name].birthday = date(1990, 11, 7)
    /\ DateLt(AddDays(last.today, 7), date(2026, 11, 9))

----------------------------------------------------------------------------
(* Claims about the entries of AddressBook, checked under SpecEntries *)

\* C11: after any sequence of add_record, find_record and delete_record,
\* every key of the book is the name of the record stored under it and is
\* held once, so no two entries hold records of the same name.
C11_KeysAreNames ==
    /\ DOMAIN book.data = Keys(book)
    /\ \A k \in Keys(book) :
          /\ book.data[k].name = k
          /\ Count(book.order, k) = 1
    /\ \A k1, k2 \in Keys(book) :
          book.data[k1].name = book.data[k2].name => k1 = k2

\* two entries are held, and a record has just been added under a name held
C11_Witness ==
    /\ last.op = "add_record"
    /\ Has(pre, last.args[1])
    /\ Keys(book) = {al, bo}
    /\ book.data[al].phones # <<>>
    /\ book.data[bo].phones # <<>>

\* C18: add_record(r) on a book holding r's name puts r in place of the
\* record held, without an error: the entries and their order stay, the
\* phones and birthday of the record held before are no longer in the book,
\* and every other entry is as it was; on a book without r's name it adds
\* the one entry for r after the others.
C18_AddRecordReplaces ==
    last.op = "add_record" =>
        LET name == last.args[1] IN
        /\ ret.exc = ""
        /\ name = contact.name
        /\ Keys(book) = Keys(pre) \cup {name}
        /\ book.data[name] = contact
        /\ \A k \in Keys(pre) \ {name} : book.data[k] = pre.data[k]
        /\ book.order = IF Has(pre, name) THEN pre.order ELSE Append(pre.order, name)

\* a record of al without phones or birthday was added to a book holding al
\* with two phones and a birthday before bo
C18_Witness ==
    /\ last.op = "add_record"
    /\ contact = Record(al).val
    /\ pre.order = <<al, bo>>
    /\ pre.data[al].phones = <<phone2, phone1>>
    /\ pre.data[al].birthday # None
    /\ book.order = <<al, bo>>
    /\ book.data[al].phones = <<>>
    /\ book.data[al].birthday = None
    /\ book.data[bo] = pre.data[bo]
    /\ book.data[bo].phones # <<>>

----------------------------------------------------------------------------
(* Claims about how main ends and what it writes, checked under Spec *)

\* C12: main ends normally, closed with nothing raised, when the line read
\* is close or exit and when the end of the input is reached at the prompt;
\* no other line read ends it.
C12_NormalTermination ==
    /\ last.op = "eof" => pc = "closed"
    /\ last.op = "input" =>
          IF Tokens.exc = "" /\ Head(Tokens.val) \in {cmd_close, cmd_exit}
          THEN pc = "closed"
          ELSE pc = "print"

\* C13: for a record the book holds without any phone, phone <name> answers
\* "<name> has no phone numbers.", not an error, and leaves the book as it
\* was.
C13_NoPhoneNumbers ==
    (/\ last.op = "input"
     /\ Tokens.exc = ""
     /\ Head(Tokens.val) = cmd_phone
     /\ Len(Tokens.val) = 2
     /\ Has(pre, Tokens.val[2])
     /\ pre.data[Tokens.val[2]].phones = <<>>) =>
        /\ out = Msg("{} has no phone numbers.", <<Tokens.val[2]>>)
        /\ book = pre
        /\ pc = "print"

\* phone al was read while the book held al without a phone and bo with one
C13_Witness ==
    /\ last.op = "input"
    /\ Tokens.exc = ""
    /\ Tokens.val = <<cmd_phone, al>>
    /\ Has(pre, al)
    /\ pre.data[al].phones = <<>>
    /\ Has(pre, bo)
    /\ pre.data[bo].phones # <<>>
    /\ out = Msg("{} has no phone numbers.", <<al>>)

\* C15: close and exit write the book to the file before main stops, so
\* whenever main is closed the book read back from the file is the book in
\* memory; no step other than reading close or exit changes the file.
C15_SavedOnClose ==
    /\ [](pc = "closed" => (file.exists /\ load_data(file) = book))
    /\ [][file' # file =>
            /\ pc = "input"
            /\ pc' = "closed"
            /\ last'.op = "input"
            /\ Head(ParsedLines[last'.args[1]].val) \in {cmd_close, cmd_exit}
            /\ book' = book]_vars

\* exit was read while the book held al with a phone and a birthday
C15_Witness ==
    /\ pc = "closed"
    /\ last.op = "input"
    /\ Tokens.val = <<cmd_exit>>
    /\ book = pre
    /\ Keys(book) = {al}
    /\ book.data[al].phones # <<>>
    /\ book.data[al].birthday # None
    /\ file = save_data(book)

\* the lines input_error returns for an exception
ErrorTexts ==
    {"Error: Incorrect number of arguments.", "Error: Contact not found."}
    \cup {"Error: " \o m : m \in
            {"Phone number should be 10 digits", "Old number was not found",
             "Phone number was not found", "Invalid date format. Use DD.MM.YYYY",
             "Name must be a non-empty string", "day is out of range for month",
             "not enough values to unpack (expected 2, got 0)",
             "not enough values to unpack (expected 2, got 1)",
             "not enough values to unpack (expected 3, got 0)",
             "not enough values to unpack (expected 3, got 1)",
             "not enough values to unpack (expected 3, got 2)",
             "not enough values to unpack (expected at least 2, got 0)",
             "not enough values to unpack (expected at least 2, got 1)",
             "too many values to unpack (expected 2)",
             "too many values to unpack (expected 3)"}}
    \cup {"Unexpected error: " \o m : m \in
            {"Birthday has already been added",
             "'NoneType' object has no attribute 'add_birthday'",
             "'NoneType' object has no attribute 'birthday'"}}

\* C19: a command answered with an error message leaves the book as it was
\* before the command; add <name> <phone> with a name the book does not hold
\* and an invalid phone leaves no record for the name.
C19_ErrorsChangeNothing ==
    last.op = "input" =>
        /\ out.text \in ErrorTexts => book = pre
        /\ (/\ Tokens.exc = ""
            /\ Len(Tokens.val) = 3
            /\ Tokens.val[1] = cmd_add
            /\ ~Has(pre, Tokens.val[2])
            /\ Len(Tokens.val[3]) # 10) => ~Has(book, Tokens.val[2])

====
